---- MODULE Spec2Model ----
(***************************************************************************)
(* mqtt-mqtt-duplicator: the process lifecycle of src/index.ts and the     *)
(* forwarding pipeline createDuplicator (src/mqtt.ts).                     *)
(*                                                                         *)
(* Node runs one callback at a time, so every action below is one          *)
(* callback run to its end or to its next await: the code between two      *)
(* awaits is one atomic step.                                              *)
(***************************************************************************)
EXTENDS Integers, Sequences, FiniteSets, TLC

\* ------------------------------------------------------------- bounds ----
MaxTriggers == 2     \* exit events (signals, beforeExit, ...) that may arrive
MaxMsgs == 2         \* inbound messages handled
MaxTicks == 1        \* reporting ticks
MaxCloses == 1       \* transient 'close' events of a broker session

\* ---------------------------------------------------- program constants --
ExitCodeError == 1
ExitCodeSigint == 130
ExitCodeSigquit == 131
ExitCodeSigterm == 143
DefaultQosMaxStr == <<"1">>     \* getQoS("FORWARD_QOS_MAX", "1")
DefaultForwardRetain == TRUE

\* Strings of process.env are sequences of characters; Undefined is the value
\* of a variable that is not set.
Undefined == <<"undefined">>
TrueStr == <<"t", "r", "u", "e">>
FalseStr == <<"f", "a", "l", "s", "e">>

QoS == {0, 1, 2}
ExitCodes == {ExitCodeError, ExitCodeSigint, ExitCodeSigquit, ExitCodeSigterm}

VARIABLES
    mainPc,            \* where the main function is: the await it is parked on
    assigned,          \* the let-variables of main that have been assigned
    runs,              \* the invocations of exitGracefully, in trigger order
    nTriggers,         \* exit events delivered so far
    exited,            \* process.exit() has been called
    processExitCode,   \* process.exitCode
    healthOk,          \* the health check server's status
    healthOkCalls,     \* number of setHealthOk(true) calls
    healthServer,      \* "none" | "open" | "closed"
    sourceConn,        \* "none" | "connected" | "offline" | "ended"
    destConn,          \* "none" | "connected" | "offline" | "ended"
    nCloses,           \* transient 'close' events so far
    subscription,      \* "none" | "subscribed" | "failed" | "unsubscribed"
    subscribeCalls,    \* number of sourceClient.subscribe calls
    unsubscribeCalls,  \* number of sourceClient.unsubscribe calls
    messageHandler,    \* sourceClient.on("message", ...) is registered
    closeListeners,    \* closeWriterIfOpen is registered on both clients
    env,               \* process.env: [FORWARD_QOS_MAX, FORWARD_RETAIN]
    dest,              \* DestMqttConfig: [qosMax, forwardRetain] once loaded
    saveToFile,        \* SaveToFileConfig: [enabled]
    writer,            \* "undefined" | "open" | "ended" | "errored"
    writerClosed,      \* the flag writerClosed
    auditFile,         \* the records accepted by writer.write, in order
    nRecentForwarded,
    nRecentDropped,
    received,          \* inbound messages handed to the message handler
    unhandled,         \* 'message' events emitted while no listener is registered
    published,         \* destClient.publish calls, in call order
    nTicks,            \* reporting ticks so far
    reports            \* the counter pairs the reporting ticks logged

vars == <<mainPc, assigned, runs, nTriggers, exited, processExitCode, healthOk,
          healthOkCalls, healthServer, sourceConn, destConn, nCloses,
          subscription, subscribeCalls, unsubscribeCalls, messageHandler,
          closeListeners, env, dest, saveToFile, writer, writerClosed, auditFile,
          nRecentForwarded, nRecentDropped, received, unhandled, published,
          nTicks, reports>>

lifecycleVars == <<mainPc, assigned, runs, nTriggers, exited, processExitCode,
                   healthOk, healthOkCalls, healthServer>>
sessionVars == <<sourceConn, destConn, nCloses, subscription, subscribeCalls,
                 unsubscribeCalls, messageHandler, closeListeners>>
configVars == <<env, dest, saveToFile>>
writerVars == <<writer, writerClosed>>
counterVars == <<nRecentForwarded, nRecentDropped>>
messageVars == <<received, unhandled, published, auditFile>>
tickVars == <<nTicks, reports>>

Min(a, b) == IF a <= b THEN a ELSE b

\* ------------------------------------------------------------- Init ------
InitWith(qosMaxes, forwardRetains, enableds) ==
    /\ mainPc = "start"
    /\ assigned = {}
    /\ runs = <<>>
    /\ nTriggers = 0
    /\ exited = FALSE
    /\ processExitCode = 0
    /\ healthOk = FALSE
    /\ healthOkCalls = 0
    /\ healthServer = "none"
    /\ sourceConn = "none"
    /\ destConn = "none"
    /\ nCloses = 0
    /\ subscription = "none"
    /\ subscribeCalls = 0
    /\ unsubscribeCalls = 0
    /\ messageHandler = FALSE
    /\ closeListeners = FALSE
    /\ env \in [FORWARD_QOS_MAX : qosMaxes, FORWARD_RETAIN : forwardRetains]
    /\ dest = "undefined"
    /\ saveToFile \in [enabled : enableds]
    /\ writer = "undefined"
    /\ writerClosed = FALSE
    /\ auditFile = <<>>
    /\ nRecentForwarded = 0
    /\ nRecentDropped = 0
    /\ received = <<>>
    /\ unhandled = <<>>
    /\ published = <<>>
    /\ nTicks = 0
    /\ reports = <<>>

Init == InitWith({Undefined}, {Undefined}, BOOLEAN)

\* ------------------------------------------- exitGracefully (index.ts) ---
\* An invocation of exitGracefully is a record: args, the variables of main that
\* were defined when exitHandler passed them; pc, the step it awaits;
\* steps, the steps it has attempted, in order; firstFailed, the first step that
\* threw or rejected (0: none).
\* The steps of exitGracefully in program order. Step 1 is synchronous, steps
\* 2..5 are awaited, 6 is process.exit().
StepNames == <<"setHealthOk", "mqttUnsubscribe", "sourceClient.end",
               "destClient.end", "closeHealthCheckServer">>
\* The argument each step is guarded by (if (setHealthOk) ..., if (sourceClient) ...).
StepArg == <<"setHealthOk", "mqttUnsubscribe", "sourceClient", "destClient",
             "closeHealthCheckServer">>
ExitStep == 6

\* The next awaited step after step k whose argument is defined, else process.exit().
NextAwait(args, k) ==
    LET later == {j \in (k + 1)..5 : j >= 2 /\ StepArg[j] \in args}
    IN  IF later = {} THEN ExitStep
        ELSE CHOOSE j \in later : \A l \in later : j <= l

AfterStepOneTry(args, k, failed) ==
    IF failed THEN ExitStep ELSE NextAwait(args, k)

\* Each step sits in its own try/catch: whether step k failed or not, control
\* goes on to the next step.
AfterStep(args, k, failed) == NextAwait(args, k)

HealthFirstSwapped(args, first) ==
    (IF first <= 5 THEN <<first>> ELSE <<>>)
    \o (IF "setHealthOk" \in args THEN <<1>> ELSE <<>>)

\* The steps a fresh invocation attempts before it first yields: setHealthOk(false)
\* when it is defined, then the first awaited call.
FirstSteps(args, first) ==
    (IF "setHealthOk" \in args THEN <<1>> ELSE <<>>)
    \o (IF first <= 5 THEN <<first>> ELSE <<>>)

ExitCodeLeft(code) == processExitCode

\* process.exitCode = exitCode
ExitCodeSet(code) == code

\* exitHandler(exitCode): calls exitGracefully with the current values of
\* main's variables; the call runs up to its first await.
ExitHandler(code, healthThrows) ==
    LET args == assigned
        callsHealth == "setHealthOk" \in args
        first == AfterStep(args, 1, callsHealth /\ healthThrows)
    IN  /\ runs' = Append(runs, [args |-> args, pc |-> first,
                                 steps |-> FirstSteps(args, first),
                                 firstFailed |-> IF callsHealth /\ healthThrows
                                                 THEN 1 ELSE 0])
        /\ processExitCode' = ExitCodeSet(code)
        /\ healthOk' = IF callsHealth /\ ~healthThrows THEN FALSE ELSE healthOk
        /\ exited' = (first = ExitStep)
        /\ unsubscribeCalls' = unsubscribeCalls + (IF first = 2 THEN 1 ELSE 0)

\* closeWriterIfOpen: the writer's state after the call. writer.end() on a
\* stream already ended or destroyed changes nothing.
CloseWriterIfOpen ==
    IF writer = "open" /\ ~writerClosed THEN "ended" ELSE writer

\* A 'close' event of a client: runs closeWriterIfOpen once it is registered.
WriterAfterClientClose ==
    IF closeListeners THEN CloseWriterIfOpen ELSE writer

\* The step run i awaits settles (resolves when ok, rejects otherwise) and the
\* invocation runs on to its next await or to process.exit().
Resume(i, ok) ==
    /\ ~exited
    /\ i \in DOMAIN runs
    /\ runs[i].pc < ExitStep
    /\ LET r == runs[i]
           k == r.pc
           next == AfterStep(r.args, k, ~ok)
       IN  /\ runs' = [runs EXCEPT ![i] =
                  [r EXCEPT !.pc = next,
                            !.steps = IF next <= 5 THEN Append(@, next) ELSE @,
                            !.firstFailed = IF @ = 0 /\ ~ok THEN k ELSE @]]
           /\ exited' = (next = ExitStep)
           /\ subscription' = IF k = 2 /\ ok /\ subscription = "subscribed"
                              THEN "unsubscribed" ELSE subscription
           /\ sourceConn' = IF k = 3 /\ ok THEN "ended" ELSE sourceConn
           /\ destConn' = IF k = 4 /\ ok THEN "ended" ELSE destConn
           /\ writer' = IF k \in {3, 4} /\ ok THEN WriterAfterClientClose ELSE writer
           /\ healthServer' = IF k = 5 /\ ok THEN "closed" ELSE healthServer
    /\ UNCHANGED <<mainPc, assigned, nTriggers, processExitCode, healthOk,
                   healthOkCalls, nCloses, subscribeCalls, unsubscribeCalls,
                   messageHandler, closeListeners, writerClosed>>
    /\ UNCHANGED <<configVars, counterVars, messageVars, tickVars>>

\* An exit event: beforeExit, unhandledRejection, uncaughtException (code 1),
\* SIGINT (130), SIGQUIT (131), SIGTERM (143).
Trigger(code, healthThrows) ==
    /\ ~exited
    /\ mainPc # "start"
    /\ nTriggers < MaxTriggers
    /\ nTriggers' = nTriggers + 1
    /\ ExitHandler(code, healthThrows)
    /\ UNCHANGED <<mainPc, assigned, healthOkCalls, healthServer, sourceConn,
                   destConn, nCloses, subscription, subscribeCalls,
                   messageHandler, closeListeners>>
    /\ UNCHANGED <<configVars, writerVars, counterVars, messageVars, tickVars>>

\* ------------------------------------------------ createDuplicator -------
\* ensureWriter: the writer's state after the call. openOk is whether mkdirSync
\* and createWriteStream returned without throwing.
EnsureWriter(openOk) ==
    IF ~saveToFile.enabled \/ writer # "undefined" \/ writerClosed THEN writer
    ELSE IF openOk THEN "open" ELSE "undefined"

\* ---------------------------------------------------- getConfig (config.ts)
Digits == <<"0", "1", "2", "3", "4", "5", "6", "7", "8", "9">>
IsDigit(c) == \E d \in DOMAIN Digits : Digits[d] = c
DigitValue(c) == (CHOOSE d \in DOMAIN Digits : Digits[d] = c) - 1
IsWhiteSpace(c) == c \in {" ", "\t", "\n", "\r"}

RECURSIVE SkipWhiteSpace(_)
SkipWhiteSpace(s) ==
    IF s # <<>> /\ IsWhiteSpace(Head(s)) THEN SkipWhiteSpace(Tail(s)) ELSE s

\* The longest prefix of s made of decimal digits.
RECURSIVE DigitPrefix(_)
DigitPrefix(s) ==
    IF s # <<>> /\ IsDigit(Head(s)) THEN <<Head(s)>> \o DigitPrefix(Tail(s))
    ELSE <<>>

RECURSIVE DigitsValue(_)
DigitsValue(ds) ==
    IF ds = <<>> THEN 0
    ELSE 10 * DigitsValue(SubSeq(ds, 1, Len(ds) - 1)) + DigitValue(ds[Len(ds)])

\* parseInt(s, 10): leading white space is skipped, then an optional sign, then
\* the longest run of digits; NaN when there is no digit there.
ParseInt(s) ==
    LET t == SkipWhiteSpace(s)
        negative == t # <<>> /\ Head(t) = "-"
        u == IF t # <<>> /\ Head(t) \in {"+", "-"} THEN Tail(t) ELSE t
        ds == DigitPrefix(u)
    IN  IF ds = <<>> THEN [nan |-> TRUE, value |-> 0]
        ELSE [nan |-> FALSE,
              value |-> IF negative THEN 0 - DigitsValue(ds) ELSE DigitsValue(ds)]

GetQoSClamped(e, envVar, defaultStr) ==
    LET str == IF e[envVar] = Undefined THEN defaultStr ELSE e[envVar]
        qos == IF ParseInt(str).nan THEN ParseInt(defaultStr) ELSE ParseInt(str)
    IN  [threw |-> FALSE,
         value |-> IF qos.value < 0 THEN 0 ELSE Min(qos.value, 2)]

\* getQoS: parseInt(process.env[envVar] ?? defaultStr, 10), throws unless the
\* result is 0, 1 or 2.
GetQoS(e, envVar, defaultStr) ==
    LET str == IF e[envVar] = Undefined THEN defaultStr ELSE e[envVar]
        qos == ParseInt(str)
    IN  IF qos.nan \/ qos.value \notin {0, 1, 2}
        THEN [threw |-> TRUE, value |-> 0]
        ELSE [threw |-> FALSE, value |-> qos.value]

\* getOptionalBooleanWithDefault: the default when unset, throws unless the
\* string is "false" or "true".
GetOptionalBooleanWithDefault(e, envVar, defaultValue) ==
    LET str == e[envVar]
    IN  IF str = Undefined THEN [threw |-> FALSE, value |-> defaultValue]
        ELSE IF str \notin {FalseStr, TrueStr}
             THEN [threw |-> TRUE, value |-> defaultValue]
             ELSE [threw |-> FALSE, value |-> (str = TrueStr)]

\* getDestMqttConfig: qosMax and forwardRetain (url, auth, clientId and clean
\* are the configOk input of MainStart).
GetDestMqttConfig(e) ==
    LET qosMax == GetQoS(e, "FORWARD_QOS_MAX", DefaultQosMaxStr)
        forwardRetain == GetOptionalBooleanWithDefault(e, "FORWARD_RETAIN",
                                                       DefaultForwardRetain)
    IN  [threw |-> qosMax.threw \/ forwardRetain.threw,
         value |-> [qosMax |-> qosMax.value,
                    forwardRetain |-> forwardRetain.value]]

\* ------------------------------------------------------ main (index.ts) --
AllVariables == {"setHealthOk", "closeHealthCheckServer", "sourceClient",
                 "destClient", "mqttUnsubscribe"}

\* main up to its first await: getConfig, createHealthCheckServer, and
\* createDuplicator up to the connect of the source client.
MainStart(configOk) ==
    /\ ~exited
    /\ mainPc = "start"
    /\ IF configOk /\ ~GetDestMqttConfig(env).threw
       THEN /\ mainPc' = "connectSource"
            /\ dest' = GetDestMqttConfig(env).value
            /\ assigned' = {"setHealthOk", "closeHealthCheckServer"}
            /\ healthServer' = "open"
            /\ UNCHANGED <<runs, exited, processExitCode, healthOk,
                           unsubscribeCalls>>
       ELSE /\ mainPc' = "failed"
            /\ ExitHandler(ExitCodeError, FALSE)
            /\ UNCHANGED <<assigned, healthServer, dest>>
    /\ UNCHANGED <<nTriggers, healthOkCalls, sourceConn, destConn, nCloses,
                   subscription, subscribeCalls, messageHandler, closeListeners>>
    /\ UNCHANGED <<env, saveToFile>>
    /\ UNCHANGED <<writerVars, counterVars, messageVars, tickVars>>

\* connectMqtt(source) settles; on success createDuplicator goes on to the
\* connect of the destination client.
ConnectSourceSettled(ok, healthThrows) ==
    /\ ~exited
    /\ mainPc = "connectSource"
    /\ IF ok
       THEN /\ mainPc' = "connectDest"
            /\ sourceConn' = "connected"
            /\ UNCHANGED <<runs, exited, processExitCode, healthOk,
                           unsubscribeCalls>>
       ELSE /\ mainPc' = "failed"
            /\ ExitHandler(ExitCodeError, healthThrows)
            /\ UNCHANGED sourceConn
    /\ UNCHANGED <<assigned, nTriggers, healthOkCalls, healthServer, destConn,
                   nCloses, subscription, subscribeCalls, messageHandler,
                   closeListeners>>
    /\ UNCHANGED <<configVars, writerVars, counterVars, messageVars, tickVars>>

\* connectMqtt(dest) settles; on success createDuplicator runs ensureWriter,
\* starts the reporting interval, registers the message handler and calls
\* sourceClient.subscribe.
ConnectDestSettled(ok, openOk, healthThrows) ==
    /\ ~exited
    /\ mainPc = "connectDest"
    /\ IF ok
       THEN /\ mainPc' = "subscribe"
            /\ destConn' = "connected"
            /\ writer' = EnsureWriter(openOk)
            /\ messageHandler' = TRUE
            /\ subscribeCalls' = subscribeCalls + 1
            /\ UNCHANGED <<runs, exited, processExitCode, healthOk,
                           unsubscribeCalls>>
       ELSE /\ mainPc' = "failed"
            /\ ExitHandler(ExitCodeError, healthThrows)
            /\ UNCHANGED <<destConn, writer, messageHandler, subscribeCalls>>
    /\ UNCHANGED <<assigned, nTriggers, healthOkCalls, healthServer, sourceConn,
                   nCloses, subscription, closeListeners, writerClosed>>
    /\ UNCHANGED <<configVars, counterVars, messageVars, tickVars>>

SubscribeErrorSwallowed == FALSE

\* The catch around sourceClient.subscribe logs and rethrows (throw err).
SubscribeErrorRethrown == TRUE

\* sourceClient.subscribe settles. Resolved: createDuplicator registers
\* closeWriterIfOpen and returns, main assigns its variables and calls
\* setHealthOk(true). Rejected: the error is rethrown to main's catch, which
\* calls exitHandler(1, err).
SubscribeSettled(ok, healthThrows) ==
    /\ ~exited
    /\ mainPc = "subscribe"
    /\ subscription' = IF ok THEN "subscribed" ELSE "failed"
    /\ IF ok \/ ~SubscribeErrorRethrown
       THEN /\ mainPc' = "running"
            /\ closeListeners' = TRUE
            /\ assigned' = AllVariables
            /\ healthOk' = TRUE
            /\ healthOkCalls' = healthOkCalls + 1
            /\ UNCHANGED <<runs, exited, processExitCode, unsubscribeCalls>>
       ELSE /\ mainPc' = "failed"
            /\ ExitHandler(ExitCodeError, healthThrows)
            /\ UNCHANGED <<closeListeners, assigned, healthOkCalls>>
    /\ UNCHANGED <<nTriggers, healthServer, sourceConn, destConn, nCloses,
                   subscribeCalls, messageHandler>>
    /\ UNCHANGED <<configVars, writerVars, counterVars, messageVars, tickVars>>

\* --------------------------------------- sessions and the audit writer ---
Conn(name) == IF name = "source" THEN sourceConn ELSE destConn

\* A client loses its connection ('close'); it reconnects by itself later.
ClientClose(name) ==
    /\ ~exited
    /\ Conn(name) = "connected"
    /\ nCloses < MaxCloses
    /\ nCloses' = nCloses + 1
    /\ sourceConn' = IF name = "source" THEN "offline" ELSE sourceConn
    /\ destConn' = IF name = "dest" THEN "offline" ELSE destConn
    /\ writer' = WriterAfterClientClose
    /\ UNCHANGED <<subscription, subscribeCalls, unsubscribeCalls,
                   messageHandler, closeListeners, writerClosed>>
    /\ UNCHANGED <<lifecycleVars, configVars, counterVars, messageVars, tickVars>>

\* The client is connected again ('connect' after 'reconnect').
ClientReconnect(name) ==
    /\ ~exited
    /\ Conn(name) = "offline"
    /\ sourceConn' = IF name = "source" THEN "connected" ELSE sourceConn
    /\ destConn' = IF name = "dest" THEN "connected" ELSE destConn
    /\ UNCHANGED <<nCloses, subscription, subscribeCalls, unsubscribeCalls,
                   messageHandler, closeListeners>>
    /\ UNCHANGED <<lifecycleVars, configVars, writerVars, counterVars,
                   messageVars, tickVars>>

\* The write stream fails ('error' is logged); the stream is destroyed and
\* accepts no more writes, its 'close' follows.
WriterError ==
    /\ ~exited
    /\ writer = "open"
    /\ writer' = "errored"
    /\ UNCHANGED writerClosed
    /\ UNCHANGED <<lifecycleVars, sessionVars, configVars, counterVars,
                   messageVars, tickVars>>

\* The write stream's 'close' event: writerClosed = true.
WriterClose ==
    /\ ~exited
    /\ writer \in {"ended", "errored"}
    /\ ~writerClosed
    /\ writerClosed' = TRUE
    /\ UNCHANGED writer
    /\ UNCHANGED <<lifecycleVars, sessionVars, configVars, counterVars,
                   messageVars, tickVars>>

\* ------------------------------------------------ the message handler ----
OutQosUnclamped(packetQos, qosMax) == packetQos

\* const qos = Math.min(packet.qos, dest.qosMax)
OutQos(packetQos, qosMax) == Min(packetQos, qosMax)

OutRetainAlways(packetRetain, forwardRetain) == packetRetain

\* const retain = dest.forwardRetain ? packet.retain : false
OutRetain(packetRetain, forwardRetain) ==
    IF forwardRetain THEN packetRetain ELSE FALSE

\* What the save-to-file block does with one message: "skipped" when its
\* guard is false, "threw" when the try block throws (caught and logged),
\* "written" when writer.write takes the record, "rejected" when the stream
\* has been ended or destroyed (write after end: an 'error' event, logged).
\* A Buffer is a sequence of bytes; a string is the sequence of its code points
\* (a surrogate pair of the UTF-16 string is its one code point).
ReplacementCharacter == 65533        \* U+FFFD

\* The continuation bytes a lead byte needs, the range of the first of them,
\* and the lead byte's payload bits.
Utf8Lead(b1) ==
    IF b1 \in 194..223
    THEN [needed |-> 1, lower |-> 128, upper |-> 191, bits |-> b1 - 192]
    ELSE IF b1 \in 224..239
    THEN [needed |-> 2, lower |-> IF b1 = 224 THEN 160 ELSE 128,
          upper |-> IF b1 = 237 THEN 159 ELSE 191, bits |-> b1 - 224]
    ELSE [needed |-> 3, lower |-> IF b1 = 240 THEN 144 ELSE 128,
          upper |-> IF b1 = 244 THEN 143 ELSE 191, bits |-> b1 - 240]

\* How many of the next bytes continue the sequence, at most `needed`.
RECURSIVE ContinuationRun(_, _, _, _)
ContinuationRun(bytes, needed, lower, upper) ==
    IF needed = 0 \/ bytes = <<>> \/ Head(bytes) \notin lower..upper THEN 0
    ELSE 1 + ContinuationRun(Tail(bytes), needed - 1, 128, 191)

RECURSIVE CodePoint(_, _)
CodePoint(bits, continuation) ==
    IF continuation = <<>> THEN bits
    ELSE CodePoint(bits * 64 + (Head(continuation) - 128), Tail(continuation))

\* message.toString("utf8"): every maximal ill-formed part of the input
\* becomes one U+FFFD; nothing is thrown and no byte order mark is removed.
RECURSIVE Utf8Decode(_)
Utf8Decode(bytes) ==
    IF bytes = <<>> THEN <<>>
    ELSE LET b1 == Head(bytes)
             rest == Tail(bytes)
         IN  IF b1 < 128 THEN <<b1>> \o Utf8Decode(rest)
             ELSE IF b1 \notin 194..244
             THEN <<ReplacementCharacter>> \o Utf8Decode(rest)
             ELSE LET lead == Utf8Lead(b1)
                      k == ContinuationRun(rest, lead.needed, lead.lower,
                                           lead.upper)
                      after == SubSeq(rest, k + 1, Len(rest))
                  IN  IF k = lead.needed
                      THEN <<CodePoint(lead.bits, SubSeq(rest, 1, k))>>
                               \o Utf8Decode(after)
                      ELSE <<ReplacementCharacter>> \o Utf8Decode(after)

Utf8EncodeOne(cp) ==
    IF cp < 128 THEN <<cp>>
    ELSE IF cp < 2048 THEN <<192 + (cp \div 64), 128 + (cp % 64)>>
    ELSE IF cp \in 55296..57343 THEN <<239, 191, 189>>
    ELSE IF cp < 65536
    THEN <<224 + (cp \div 4096), 128 + ((cp \div 64) % 64), 128 + (cp % 64)>>
    ELSE <<240 + (cp \div 262144), 128 + ((cp \div 4096) % 64),
           128 + ((cp \div 64) % 64), 128 + (cp % 64)>>

\* Buffer.from(string, "utf8")
RECURSIVE Utf8Encode(_)
Utf8Encode(string) ==
    IF string = <<>> THEN <<>>
    ELSE Utf8EncodeOne(Head(string)) \o Utf8Encode(Tail(string))

\* The base64 alphabet A-Z a-z 0-9 + / as code points, and the padding "=".
Base64Char(i) ==
    IF i < 26 THEN 65 + i
    ELSE IF i < 52 THEN 97 + (i - 26)
    ELSE IF i < 62 THEN 48 + (i - 52)
    ELSE IF i = 62 THEN 43
    ELSE 47
Base64Pad == 61

\* message.toString("base64")
RECURSIVE Base64Encode(_)
Base64Encode(bytes) ==
    IF bytes = <<>> THEN <<>>
    ELSE IF Len(bytes) = 1
    THEN <<Base64Char(bytes[1] \div 4), Base64Char((bytes[1] % 4) * 16),
           Base64Pad, Base64Pad>>
    ELSE IF Len(bytes) = 2
    THEN <<Base64Char(bytes[1] \div 4),
           Base64Char((bytes[1] % 4) * 16 + (bytes[2] \div 16)),
           Base64Char((bytes[2] % 16) * 4), Base64Pad>>
    ELSE <<Base64Char(bytes[1] \div 4),
           Base64Char((bytes[1] % 4) * 16 + (bytes[2] \div 16)),
           Base64Char((bytes[2] % 16) * 4 + (bytes[3] \div 64)),
           Base64Char(bytes[3] % 64)>>
             \o Base64Encode(SubSeq(bytes, 4, Len(bytes)))

IsBase64Char(c) == \E i \in 0..63 : Base64Char(i) = c
Base64Sextet(c) == CHOOSE i \in 0..63 : Base64Char(i) = c

\* The sextets of a base64 string up to its padding.
RECURSIVE Base64Sextets(_)
Base64Sextets(string) ==
    IF string = <<>> \/ ~IsBase64Char(Head(string)) THEN <<>>
    ELSE <<Base64Sextet(Head(string))>> \o Base64Sextets(Tail(string))

RECURSIVE SextetsToBytes(_)
SextetsToBytes(x) ==
    IF Len(x) < 2 THEN <<>>
    ELSE IF Len(x) = 2 THEN <<x[1] * 4 + (x[2] \div 16)>>
    ELSE IF Len(x) = 3
    THEN <<x[1] * 4 + (x[2] \div 16), (x[2] % 16) * 16 + (x[3] \div 4)>>
    ELSE <<x[1] * 4 + (x[2] \div 16), (x[2] % 16) * 16 + (x[3] \div 4),
           (x[3] % 4) * 64 + x[4]>> \o SextetsToBytes(SubSeq(x, 5, Len(x)))

\* Buffer.from(string, "base64")
Base64Decode(string) == SextetsToBytes(Base64Sextets(string))

PayloadAlwaysUtf8(message) ==
    [payloadEncoding |-> "utf8", payload |-> Utf8Decode(message)]

\* payloadEncoding and payload of the audit record: the decoded string when
\* encoding it again gives the message's bytes, its base64 otherwise.
AuditPayload(message) ==
    LET payload == Utf8Decode(message)
    IN  IF Utf8Encode(payload) # message
        THEN [payloadEncoding |-> "base64", payload |-> Base64Encode(message)]
        ELSE [payloadEncoding |-> "utf8", payload |-> payload]

AuditOutcome(writeThrows) ==
    IF ~(saveToFile.enabled /\ writer # "undefined" /\ ~writerClosed)
    THEN "skipped"
    ELSE IF writeThrows THEN "threw"
    ELSE IF writer = "open" THEN "written"
    ELSE "rejected"

PublishUnlessAuditFailed(outcome) == outcome \notin {"threw", "rejected"}

\* Whether the handler reaches destClient.publish after the save-to-file
\* block: the block's errors are caught, so always.
PublishReached(outcome) == TRUE

\* The destClient.publish calls one handler invocation makes.
PublishCalls(call) == <<call>>

\* The publish calls that have not settled.
InFlight == {i \in DOMAIN published : published[i].status = "pending"}

HandlesWhenIdle(pending) == pending = {}

\* Whether the handler takes a message while the given publishes are in
\* flight: it does not await destClient.publish, it only attaches .then
\* callbacks, so always.
HandlesWhile(pending) == TRUE

\* sourceClient.on("message", (topic, message, packet) => ...)
OnMessage(topic, message, packet, writeThrows) ==
    /\ ~exited
    /\ messageHandler
    /\ HandlesWhile(InFlight)
    /\ sourceConn = "connected"
    /\ subscription # "unsubscribed"
    /\ LET qos == OutQos(packet.qos, dest.qosMax)
           retain == OutRetain(packet.retain, dest.forwardRetain)
           outcome == AuditOutcome(writeThrows)
           n == Len(received) + 1
           call == [msg |-> n, topic |-> topic, message |-> message,
                    qos |-> qos, retain |-> retain, status |-> "pending",
                    tick |-> 0]
       IN  /\ received' = Append(received,
                  [topic |-> topic, message |-> message, qos |-> packet.qos,
                   retain |-> packet.retain, dup |-> packet.dup,
                   audit |-> outcome])
           /\ auditFile' = IF outcome = "written"
                           THEN Append(auditFile,
                                    [msg |-> n, topic |-> topic,
                                     incomingQos |-> packet.qos,
                                     incomingRetain |-> packet.retain,
                                     dup |-> packet.dup,
                                     payloadEncoding |->
                                         AuditPayload(message).payloadEncoding,
                                     payload |-> AuditPayload(message).payload])
                           ELSE auditFile
           /\ published' = IF PublishReached(outcome)
                           THEN published \o PublishCalls(call)
                           ELSE published
    /\ UNCHANGED <<lifecycleVars, sessionVars, configVars, writerVars,
                   counterVars, tickVars, unhandled>>

\* getSourceMqttConfig: clean defaults to false and the client id is the
\* prefix alone by default, so the broker resumes the session of the last run.
DefaultSourceClean == FALSE

\* The source client emits 'message' while createDuplicator has not yet
\* reached sourceClient.on("message", ...): the broker sends the messages
\* queued for a resumed session right after the connect. An event without
\* a listener is dropped by the emitter.
MessageUnhandled(topic, message, packet) ==
    /\ ~exited
    /\ ~DefaultSourceClean
    /\ sourceConn = "connected"
    /\ ~messageHandler
    /\ unhandled' = Append(unhandled,
           [topic |-> topic, message |-> message, qos |-> packet.qos,
            retain |-> packet.retain, dup |-> packet.dup])
    /\ UNCHANGED <<lifecycleVars, sessionVars, configVars, writerVars,
                   counterVars, tickVars, received, published, auditFile>>

RetryFailedPublish(i) ==
    Append([published EXCEPT ![i].status = "failed", ![i].tick = nTicks],
           [published[i] EXCEPT !.status = "pending"])

\* The publish log after call i is rejected: the rejection handler logs and
\* counts, it makes no further call.
PublishedAfterFailure(i) ==
    [published EXCEPT ![i].status = "failed", ![i].tick = nTicks]

CountBothOnFailure(ok) ==
    IF ok THEN <<nRecentForwarded + 1, nRecentDropped>>
    ELSE <<nRecentForwarded + 1, nRecentDropped + 1>>

\* The counters after a publish settles: nRecentForwarded += 1 when it
\* resolves, nRecentDropped += 1 when it rejects.
CountersAfter(ok) ==
    IF ok THEN <<nRecentForwarded + 1, nRecentDropped>>
    ELSE <<nRecentForwarded, nRecentDropped + 1>>

RejectionUnhandled == FALSE

\* .then is given a rejection callback, so a rejected publish leaves no
\* unhandled rejection for process.on("unhandledRejection").
RejectionHandled == TRUE

\* destClient.publish(...).then(onFulfilled, onRejected) for call i. A
\* rejection nobody handled would reach the unhandledRejection handler, which
\* calls exitHandler(1, reason).
PublishSettled(i, ok) ==
    /\ ~exited
    /\ i \in DOMAIN published
    /\ published[i].status = "pending"
    /\ published' = IF ok
                    THEN [published EXCEPT ![i].status = "ok", ![i].tick = nTicks]
                    ELSE PublishedAfterFailure(i)
    /\ nRecentForwarded' = CountersAfter(ok)[1]
    /\ nRecentDropped' = CountersAfter(ok)[2]
    /\ IF ok \/ RejectionHandled
       THEN UNCHANGED <<runs, processExitCode, healthOk, exited,
                        unsubscribeCalls>>
       ELSE ExitHandler(ExitCodeError, FALSE)
    /\ UNCHANGED <<received, auditFile, unhandled>>
    /\ UNCHANGED <<mainPc, assigned, nTriggers, healthOkCalls, healthServer,
                   sourceConn, destConn, nCloses, subscription, subscribeCalls,
                   messageHandler, closeListeners>>
    /\ UNCHANGED <<configVars, writerVars, tickVars>>

ResetForwardedOnly == <<0, nRecentDropped>>

\* The counters after the reporting callback: nRecentForwarded = 0,
\* nRecentDropped = 0.
CountersAfterTick == <<0, 0>>

\* The setInterval callback: log both counters, reset both.
Tick ==
    /\ ~exited
    /\ messageHandler
    /\ nTicks < MaxTicks
    /\ nTicks' = nTicks + 1
    /\ reports' = Append(reports, <<nRecentForwarded, nRecentDropped>>)
    /\ nRecentForwarded' = CountersAfterTick[1]
    /\ nRecentDropped' = CountersAfterTick[2]
    /\ UNCHANGED <<lifecycleVars, sessionVars, configVars, writerVars,
                   messageVars>>

\* ------------------------------------------------------ specifications ---
Topics == {"t/1", "t/2"}
Payloads == {<<104, 105>>, <<>>}
Packets(qoss, retains, dups) == [qos : qoss, retain : retains, dup : dups]


\* A startup in which nothing fails: the configuration is valid, both brokers
\* accept the connection and the subscription.
StartupSucceeds ==
    \/ MainStart(TRUE)
    \/ ConnectSourceSettled(TRUE, FALSE)
    \/ \E openOk \in BOOLEAN : ConnectDestSettled(TRUE, openOk, FALSE)
    \/ SubscribeSettled(TRUE, FALSE)

\* The process lifecycle: startup with its failures, exit events at any
\* await, the shutdown sequence with failing steps, the writer's close.
Next ==
    \/ \E configOk \in BOOLEAN : MainStart(configOk)
    \/ \E ok, healthThrows \in BOOLEAN : ConnectSourceSettled(ok, healthThrows)
    \/ \E ok, openOk, healthThrows \in BOOLEAN :
           ConnectDestSettled(ok, openOk, healthThrows)
    \/ \E ok, healthThrows \in BOOLEAN : SubscribeSettled(ok, healthThrows)
    \/ \E code \in ExitCodes, healthThrows \in BOOLEAN : Trigger(code, healthThrows)
    \/ \E i \in DOMAIN runs, ok \in BOOLEAN : Resume(i, ok)
    \/ WriterClose

Spec == Init /\ [][Next]_vars

\* The audit path: a running duplicator whose sessions drop and reconnect,
\* whose writer fails or closes, and messages of one shape.
NextAudit ==
    \/ StartupSucceeds
    \/ \E name \in {"source", "dest"} : ClientClose(name)
    \/ \E name \in {"source", "dest"} : ClientReconnect(name)
    \/ WriterError
    \/ WriterClose
    \/ /\ Len(received) < MaxMsgs
       /\ \E writeThrows \in BOOLEAN :
              OnMessage("t/1", <<104, 105>>, [qos |-> 2, retain |-> TRUE, dup |-> FALSE],
                        writeThrows)
    \/ \E i \in DOMAIN published, ok \in BOOLEAN : PublishSettled(i, ok)

SpecAudit == Init /\ [][NextAudit]_vars

\* The forward policy: every ceiling and retain setting, messages of every
\* QoS and retain flag.
InitPolicy == InitWith({<<"0">>, <<"1">>, <<"2">>}, {TrueStr, FalseStr},
                       {FALSE})

NextPolicy ==
    \/ StartupSucceeds
    \/ /\ Len(received) < MaxMsgs
       /\ \E packet \in Packets(QoS, BOOLEAN, {FALSE}) :
              OnMessage("t/1", <<104, 105>>, packet, FALSE)
    \/ \E i \in DOMAIN published, ok \in BOOLEAN : PublishSettled(i, ok)

SpecPolicy == InitPolicy /\ [][NextPolicy]_vars

\* Forwarding and counting: messages of several topics and payloads, publishes
\* settling in any order, reporting ticks in between.
InitForward == InitWith({Undefined}, {Undefined}, {FALSE})

NextForward ==
    \/ StartupSucceeds
    \/ /\ Len(received) < MaxMsgs
       /\ \E topic \in Topics, message \in Payloads :
              OnMessage(topic, message,
                        [qos |-> 2, retain |-> TRUE, dup |-> FALSE], FALSE)
    \/ \E i \in DOMAIN published, ok \in BOOLEAN : PublishSettled(i, ok)
    \/ Tick

SpecForward == InitForward /\ [][NextForward]_vars

\* ------------------------------------------------------------ claims -----
\* The inbound message a publish call was made for.
Inbound(call) == received[call.msg]

\* C1: every destination publish is initiated with QoS min(q, m) of the inbound
\* QoS q and the ceiling m = dest.qosMax: it exceeds neither, it is one of the
\* two, and an inbound QoS 0 is published with QoS 0 under every ceiling.
C1_QosIsMinOfInboundAndCeiling ==
    \A i \in DOMAIN published :
        LET q == Inbound(published[i]).qos
            m == dest.qosMax
            out == published[i].qos
        IN  /\ out <= q
            /\ out <= m
            /\ out \in {q, m}
            /\ (q = 0 => out = 0)

\* C1 witness: an inbound QoS 2 under ceiling 1 has been published with QoS 1,
\* and an inbound QoS 0 has been published too.
C1_Witness ==
    /\ published # <<>>
    /\ dest.qosMax = 1
    /\ \E i, j \in DOMAIN published :
           /\ Inbound(published[i]).qos = 2 /\ published[i].qos = 1
           /\ Inbound(published[j]).qos = 0 /\ published[j].qos = 0

\* C2: the retain flag of every destination publish is false when forwardRetain
\* is false, and the inbound retain flag when forwardRetain is true.
C2_RetainFollowsForwardRetain ==
    \A i \in DOMAIN published :
        /\ (~dest.forwardRetain => published[i].retain = FALSE)
        /\ (dest.forwardRetain =>
                published[i].retain = Inbound(published[i]).retain)

\* C2 witness: with forwardRetain false a retained inbound message has been
\* published.
C2_Witness ==
    /\ published # <<>>
    /\ ~dest.forwardRetain
    /\ \E i \in DOMAIN published :
           Inbound(published[i]).retain /\ ~published[i].retain

\* C3: the i-th inbound message has exactly one destination publish call, the
\* i-th, with the same topic and payload, whether earlier publishes resolved,
\* rejected or are still pending; a rejected publish adds no call.
C3_OnePublishPerMessage ==
    /\ Len(published) = Len(received)
    /\ \A i \in DOMAIN published :
           /\ published[i].msg = i
           /\ published[i].topic = received[i].topic
           /\ published[i].message = received[i].message

\* C3 witness: the first publish was rejected, a later message of another topic
\* and payload has its one publish, and there are two calls in all.
C3_Witness ==
    /\ Len(received) = 2
    /\ Len(published) = 2
    /\ published[1].status = "failed"
    /\ received[2].topic # received[1].topic
    /\ received[2].message # received[1].message
    /\ published[2].topic = received[2].topic

\* The publish calls that settled with the given status since the last
\* reporting tick.
SettledSinceTick(status) ==
    {i \in DOMAIN published :
        published[i].status = status /\ published[i].tick = nTicks}

\* The calls that are pending before a step and have the given status after it.
NewlySettled(status) ==
    {i \in DOMAIN published :
        /\ published[i].status = "pending"
        /\ i \in DOMAIN published'
        /\ published'[i].status = status}

\* C4: a step in which a publish resolves adds one to nRecentForwarded and leaves
\* nRecentDropped alone, a step in which one rejects adds one to nRecentDropped
\* and leaves nRecentForwarded alone; so between reporting ticks the counters
\* are the numbers of publishes resolved and rejected since the last tick.
C4_CompletionCountsOnce ==
    /\ [](/\ nRecentForwarded = Cardinality(SettledSinceTick("ok"))
          /\ nRecentDropped = Cardinality(SettledSinceTick("failed")))
    /\ [][/\ (NewlySettled("ok") # {} =>
                 /\ nRecentForwarded' = nRecentForwarded + 1
                 /\ nRecentDropped' = nRecentDropped)
          /\ (NewlySettled("failed") # {} =>
                 /\ nRecentDropped' = nRecentDropped + 1
                 /\ nRecentForwarded' = nRecentForwarded)]_vars

\* C4 witness: two publishes were rejected with no tick in between;
\* nRecentDropped is 2 and nRecentForwarded is 0.
C4_Witness ==
    /\ Cardinality(SettledSinceTick("failed")) = 2
    /\ nRecentDropped = 2
    /\ nRecentForwarded = 0

\* The records of the audit file written for inbound message n.
AuditRecordsOf(n) == {j \in DOMAIN auditFile : auditFile[j].msg = n}

\* C5: with auditing enabled and the writer opened at startup, and no error of
\* the write stream, every inbound message with a destination publish has had
\* its one audit record handed to the writer (writer.write was called for it),
\* also after 'close' events of a session.
C5_OneAuditRecordPerPublish ==
    (saveToFile.enabled /\ writer \in {"open", "ended"}) =>
        \A i \in DOMAIN published :
            /\ Inbound(published[i]).audit # "skipped"
            /\ Cardinality(AuditRecordsOf(published[i].msg)) <= 1

\* C6: every inbound message has its destination publish call whatever the
\* audit step did (skipped because auditing is off, the writer never opened or
\* is closed; threw; rejected by an ended stream; written), and the counters
\* count settled publishes only.
C6_AuditNeverBlocksForward ==
    /\ \A n \in DOMAIN received : \E i \in DOMAIN published : published[i].msg = n
    /\ nRecentForwarded =
           Cardinality({i \in DOMAIN published : published[i].status = "ok"})
    /\ nRecentDropped =
           Cardinality({i \in DOMAIN published : published[i].status = "failed"})

\* C6 witness: with auditing enabled one record write threw and one message
\* was skipped by the audit step (writer closed or never opened); both have
\* their publish pending and both counters are 0.
C6_Witness ==
    /\ saveToFile.enabled
    /\ \E m, n \in DOMAIN received :
           /\ received[m].audit = "threw"
           /\ received[n].audit = "skipped"
           /\ \E i, j \in DOMAIN published :
                  /\ published[i].msg = m /\ published[i].status = "pending"
                  /\ published[j].msg = n /\ published[j].status = "pending"
    /\ nRecentForwarded = 0
    /\ nRecentDropped = 0

\* The steps 1..upTo whose argument the invocation was given, in program order.
DefinedSteps(args, upTo) ==
    SelectSeq(<<1, 2, 3, 4, 5>>, LAMBDA k : k <= upTo /\ StepArg[k] \in args)

\* C7: an invocation of exitGracefully attempts its steps in program order
\* (health not-ok, unsubscribe, end source, end destination, close the health
\* check server), each step whose argument is defined exactly once, and none is
\* skipped because an earlier one threw or rejected: what it has attempted is
\* every defined step up to the one it awaits, all of them once it has reached
\* process.exit().
C7_StepsInOrderDespiteFailures ==
    \A i \in DOMAIN runs : runs[i].steps = DefinedSteps(runs[i].args, runs[i].pc)

\* C7 witness: an invocation given every argument reached process.exit() after
\* its unsubscribe (or its setHealthOk) failed, having attempted all five steps.
C7_Witness ==
    \E i \in DOMAIN runs :
        /\ runs[i].args = AllVariables
        /\ runs[i].pc = ExitStep
        /\ runs[i].firstFailed \in {1, 2}
        /\ runs[i].steps = <<1, 2, 3, 4, 5>>

\* C8: once a shutdown has been triggered with the subscription active,
\* unsubscribe has been attempted exactly once, however many exit events
\* arrived.
C8_UnsubscribeExactlyOnce ==
    (\E i \in DOMAIN runs : "mqttUnsubscribe" \in runs[i].args) =>
        unsubscribeCalls = 1

\* C9: setHealthOk(true) has been called only if the subscription succeeded, and
\* an invocation of exitGracefully that attempts unsubscribe or the end of a
\* session has attempted setHealthOk(false) first.
C9_HealthOkAfterSubscribeNotOkFirst ==
    /\ (healthOkCalls > 0 => subscription \in {"subscribed", "unsubscribed"})
    /\ \A i \in DOMAIN runs :
           (\E p \in DOMAIN runs[i].steps : runs[i].steps[p] \in {2, 3, 4}) =>
               runs[i].steps[1] = 1

\* C9 witness: health was set OK after the subscription succeeded and a shutdown
\* has since attempted setHealthOk(false), unsubscribe and both session ends.
C9_Witness ==
    /\ healthOkCalls = 1
    /\ \E i \in DOMAIN runs :
           /\ Len(runs[i].steps) >= 4
           /\ SubSeq(runs[i].steps, 1, 4) = <<1, 2, 3, 4>>

\* C10: when sourceClient.subscribe rejects, the error reaches main's catch
\* (main is "failed" in that same step), which calls exitHandler with exit code
\* 1: a new invocation of exitGracefully starts and process.exitCode is 1; and
\* from then on subscribe has been called once and setHealthOk(true) never.
C10_SubscribeFailureIsFatal ==
    /\ [](subscription = "failed" =>
              /\ mainPc = "failed"
              /\ subscribeCalls = 1
              /\ healthOkCalls = 0)
    /\ [][(subscription # "failed" /\ subscription' = "failed") =>
              /\ mainPc' = "failed"
              /\ Len(runs') = Len(runs) + 1
              /\ processExitCode' = ExitCodeError]_vars

\* C10 witness: the subscribe failed and the shutdown it triggered has reached
\* process.exit().
C10_Witness ==
    /\ subscription = "failed"
    /\ exited
    /\ healthOkCalls = 0

\* The invocations of exitGracefully that have attempted step k.
Attempted(k) ==
    {i \in DOMAIN runs : \E p \in DOMAIN runs[i].steps : runs[i].steps[p] = k}

\* C11: when the process has exited, the shutdown has attempted to end every
\* broker session that had been established (source: step 3, destination:
\* step 4), whatever triggered the termination.
C11_EstablishedSessionsAreEnded ==
    exited =>
        /\ (sourceConn # "none" => Attempted(3) # {})
        /\ (destConn # "none" => Attempted(4) # {})

\* C14: the audit writer is ended only after the source session and the
\* destination session have been closed.
C14_AuditSinkClosedLast ==
    writer = "ended" => (sourceConn = "ended" /\ destConn = "ended")

\* C20: once an invocation of exitGracefully has set health to not-ok
\* (setHealthOk(false) returned), health is not OK in any later state.
C20_HealthStaysNotOk ==
    (\E i \in Attempted(1) : runs[i].firstFailed # 1) => ~healthOk


\* C15: once the writer's end has been requested by closeWriterIfOpen, or the
\* stream has closed (writerClosed), a message handler invocation makes no
\* write call: its message skips the audit step; and a writer that is no longer
\* open is never open again.
C15_NoWriteOnClosedWriter ==
    [][/\ ((writer = "ended" \/ writerClosed) /\ Len(received') > Len(received))
           => received'[Len(received')].audit = "skipped"
       /\ (writer \in {"ended", "errored"} \/ writerClosed) => writer' # "open"]_vars

\* The publish calls that settled with the given status while nTicks was k.
SettledInPeriod(status, k) ==
    {i \in DOMAIN published :
        published[i].status = status /\ published[i].tick = k}

\* C16: the k-th reporting tick logged the numbers of publishes that resolved
\* and that rejected between tick k-1 (or startup) and tick k; a tick leaves
\* both counters 0; and every settled publish is in exactly one of the logged
\* or current values: the logged and current values add up to the numbers of
\* publishes settled.
C16_ReportsCountEachCompletionOnce ==
    /\ [](/\ \A k \in DOMAIN reports :
                 /\ reports[k][1] = Cardinality(SettledInPeriod("ok", k - 1))
                 /\ reports[k][2] = Cardinality(SettledInPeriod("failed", k - 1))
          /\ Len(reports) = nTicks
          /\ nRecentForwarded = Cardinality(SettledInPeriod("ok", nTicks))
          /\ nRecentDropped = Cardinality(SettledInPeriod("failed", nTicks)))
    /\ [][nTicks' # nTicks => (nRecentForwarded' = 0 /\ nRecentDropped' = 0)]_vars

\* C16 witness: a tick logged one resolved and one rejected publish and reset
\* both counters.
C16_Witness ==
    /\ Len(reports) = 1
    /\ reports[1] = <<1, 1>>
    /\ nRecentForwarded = 0
    /\ nRecentDropped = 0

\* C17: publish calls are made in the order the messages were handled, a
\* message can be handled whatever publishes are in flight, and every publish
\* in flight can resolve or reject next, whatever its position.
C17_InitiationOrderNoWaiting ==
    /\ \A i, j \in DOMAIN published :
           i < j => published[i].msg < published[j].msg
    /\ (messageHandler /\ sourceConn = "connected" /\ ~exited
        /\ subscription # "unsubscribed") =>
           ENABLED OnMessage("t/1", <<>>,
                             [qos |-> 2, retain |-> TRUE, dup |-> FALSE], FALSE)
    /\ \A i \in InFlight :
           /\ ENABLED PublishSettled(i, TRUE)
           /\ ENABLED PublishSettled(i, FALSE)

\* C17 witness: two publishes were in flight at once and the later one has
\* resolved while the earlier one is still pending.
C17_Witness ==
    /\ Len(published) = 2
    /\ published[1].status = "pending"
    /\ published[2].status = "ok"


\* Shutdown with publishes in flight: a running duplicator receives messages,
\* SIGTERMs arrive, the shutdown sequence runs, and publishes settle at any
\* point of it.
NextDrain ==
    \/ StartupSucceeds
    \/ Trigger(ExitCodeSigterm, FALSE)
    \/ \E i \in DOMAIN runs, ok \in BOOLEAN : Resume(i, ok)
    \/ WriterClose
    \/ /\ Len(received) < MaxMsgs
       /\ OnMessage("t/1", <<104, 105>>,
                    [qos |-> 2, retain |-> TRUE, dup |-> FALSE], FALSE)
    \/ \E i \in DOMAIN published, ok \in BOOLEAN : PublishSettled(i, ok)

InitDrain == InitWith({Undefined}, {Undefined}, {TRUE})

SpecDrain == InitDrain /\ [][NextDrain]_vars


\* C18: a step in which a publish rejects adds one to nRecentDropped and changes
\* nothing else of the process: no invocation of exitGracefully starts, ends or
\* moves, process.exitCode, the health status, the subscription, the sessions
\* and the audit writer stay as they are, and no publish call is added.
C18_PublishFailureOnlyCounts ==
    [][NewlySettled("failed") # {} =>
           /\ nRecentDropped' = nRecentDropped + 1
           /\ Len(published') = Len(published)
           /\ UNCHANGED <<lifecycleVars, sessionVars, configVars, writerVars,
                          nRecentForwarded, received, auditFile, tickVars>>]_vars

\* C18 witness: a publish was rejected after the shutdown had ended the
\* destination session, and the shutdown went on from there; nRecentDropped
\* counts it.
C18_Witness ==
    /\ destConn = "ended"
    /\ nRecentDropped = 1
    /\ \E i \in DOMAIN published : published[i].status = "failed"
    /\ \E i \in DOMAIN runs : runs[i].pc = 5
    /\ writer = "ended"


\* Some awaited step of some invocation of exitGracefully settles.
ResumeSome == \E i \in DOMAIN runs, ok \in BOOLEAN : Resume(i, ok)

\* The process lifecycle in which every awaited shutdown step eventually
\* resolves or rejects.
SpecLive == Spec /\ WF_vars(ResumeSome)

\* C19: once an invocation of exitGracefully has started, the process eventually
\* calls process.exit(); every exitHandler call leaves process.exitCode at one
\* of 1, 130, 131, 143, so the process exits with a non-zero code, also after
\* several exit events.
C19_EventuallyExitsNonZero ==
    /\ (runs # <<>>) ~> exited
    /\ [](exited => processExitCode \in ExitCodes /\ processExitCode # 0)
    /\ [][Len(runs') > Len(runs) =>
              (processExitCode' \in ExitCodes /\ processExitCode' # 0)]_vars

\* C19 witness: two exit events arrived, the later one SIGINT, and the process
\* has exited with code 130.
C19_Witness ==
    /\ exited
    /\ nTriggers = 2
    /\ processExitCode = ExitCodeSigint


\* ------------------------------------------------------ configuration ----
MaxEnvLen == 2       \* characters of a configured FORWARD_QOS_MAX

EnvChars == {"0", "1", "2", "3", "-", " ", "x"}
EnvStrings == UNION {[1..n -> EnvChars] : n \in 0..MaxEnvLen}

\* Configuration loading: FORWARD_QOS_MAX unset or any short string,
\* FORWARD_RETAIN unset, valid or invalid; then a startup and one message.
InitConfig == InitWith({Undefined} \cup EnvStrings,
                       {Undefined, TrueStr, FalseStr, <<"1">>}, {FALSE})

NextConfig ==
    \/ \E configOk \in BOOLEAN : MainStart(configOk)
    \/ ConnectSourceSettled(TRUE, FALSE)
    \/ ConnectDestSettled(TRUE, TRUE, FALSE)
    \/ SubscribeSettled(TRUE, FALSE)
    \/ /\ received = <<>>
       /\ OnMessage("t/1", <<104, 105>>, [qos |-> 2, retain |-> TRUE, dup |-> FALSE],
                    FALSE)

SpecConfig == InitConfig /\ [][NextConfig]_vars

\* getConfig has returned: main has gone on to createHealthCheckServer.
ConfigLoaded == "setHealthOk" \in assigned

\* C13: when FORWARD_QOS_MAX is set and its integer value is not 0, 1 or 2, main
\* ends in process.exit() with exit code 1, no broker connection attempted and
\* no configuration in use; a loaded qosMax is the configured integer itself
\* (never a clamped one), 1 when FORWARD_QOS_MAX is unset, and forwardRetain is
\* true when FORWARD_RETAIN is unset.
C13_QosMaxOutOfRangeAbortsStartup ==
    LET str == env.FORWARD_QOS_MAX
        configured == str # Undefined
        qos == ParseInt(str)
    IN  /\ (mainPc # "start" /\ configured /\ ~qos.nan /\ qos.value \notin QoS) =>
               /\ exited
               /\ processExitCode = ExitCodeError
               /\ ~ConfigLoaded
               /\ sourceConn = "none"
               /\ destConn = "none"
               /\ subscribeCalls = 0
               /\ published = <<>>
        /\ ConfigLoaded =>
               /\ dest.qosMax \in QoS
               /\ configured => (~qos.nan /\ dest.qosMax = qos.value)
               /\ ~configured => dest.qosMax = 1
               /\ env.FORWARD_RETAIN = Undefined => dest.forwardRetain = TRUE

\* C13 witness: FORWARD_QOS_MAX is "3" and the process has exited with code 1
\* without a connection.
C13_Witness ==
    /\ env.FORWARD_QOS_MAX = <<"3">>
    /\ exited
    /\ processExitCode = ExitCodeError
    /\ sourceConn = "none"


\* ------------------------------------------------- payload encoding ------
MaxPayloadLen == 4   \* bytes of an inbound payload

\* An ASCII byte, continuation bytes at the edges of the restricted ranges,
\* lead bytes of two, three and four byte sequences, and 0xFF.
PayloadByteValues == {104, 128, 159, 160, 191, 195, 224, 237, 240, 255}
PayloadBytes == UNION {[1..n -> PayloadByteValues] : n \in 0..MaxPayloadLen}

\* Auditing of one message whose payload is any short byte sequence.
InitEncoding == InitWith({Undefined}, {Undefined}, {TRUE})

NextEncoding ==
    \/ MainStart(TRUE)
    \/ ConnectSourceSettled(TRUE, FALSE)
    \/ ConnectDestSettled(TRUE, TRUE, FALSE)
    \/ SubscribeSettled(TRUE, FALSE)
    \/ /\ received = <<>>
       /\ \E message \in PayloadBytes :
              OnMessage("t/1", message,
                        [qos |-> 1, retain |-> FALSE, dup |-> FALSE], FALSE)

SpecEncoding == InitEncoding /\ [][NextEncoding]_vars

\* One Unicode scalar value in UTF-8 (Unicode, table 3-7).
IsUtf8Scalar(s) ==
    \/ Len(s) = 1 /\ s[1] \in 0..127
    \/ Len(s) = 2 /\ s[1] \in 194..223 /\ s[2] \in 128..191
    \/ /\ Len(s) = 3
       /\ \/ s[1] = 224 /\ s[2] \in 160..191
          \/ s[1] \in (225..236) \cup (238..239) /\ s[2] \in 128..191
          \/ s[1] = 237 /\ s[2] \in 128..159
       /\ s[3] \in 128..191
    \/ /\ Len(s) = 4
       /\ \/ s[1] = 240 /\ s[2] \in 144..191
          \/ s[1] \in 241..243 /\ s[2] \in 128..191
          \/ s[1] = 244 /\ s[2] \in 128..143
       /\ s[3] \in 128..191
       /\ s[4] \in 128..191

\* Valid UTF-8: a concatenation of encoded scalar values.
RECURSIVE IsValidUtf8(_)
IsValidUtf8(bytes) ==
    \/ bytes = <<>>
    \/ \E n \in 1..Min(4, Len(bytes)) :
           /\ IsUtf8Scalar(SubSeq(bytes, 1, n))
           /\ IsValidUtf8(SubSeq(bytes, n + 1, Len(bytes)))

\* C12: every audit record has payloadEncoding "utf8" exactly when decoding the
\* message's bytes as UTF-8 and encoding the string again gives the same bytes,
\* which is exactly when the bytes are valid UTF-8, and "base64" otherwise;
\* decoding the record's payload by its payloadEncoding gives the message's
\* bytes.
C12_AuditPayloadIsLossless ==
    \A j \in DOMAIN auditFile :
        LET record == auditFile[j]
            message == received[record.msg].message
        IN  /\ record.payloadEncoding \in {"utf8", "base64"}
            /\ record.payloadEncoding = "utf8" <=>
                   Utf8Encode(Utf8Decode(message)) = message
            /\ record.payloadEncoding = "utf8" <=> IsValidUtf8(message)
            /\ record.payloadEncoding = "utf8" =>
                   Utf8Encode(record.payload) = message
            /\ record.payloadEncoding = "base64" =>
                   Base64Decode(record.payload) = message

\* C12 witness: the payload 0xFF 0x68 is recorded as base64 "/2g=".
C12_Witness ==
    \E j \in DOMAIN auditFile :
        /\ received[auditFile[j].msg].message = <<255, 104>>
        /\ auditFile[j].payloadEncoding = "base64"
        /\ auditFile[j].payload = <<47, 50, 103, 61>>


\* ------------------------------------------------- resumed session -------
\* A startup on a resumed source session: queued messages arrive from the
\* moment the source connection is established, later ones after it.
NextResume ==
    \/ StartupSucceeds
    \/ /\ Len(unhandled) < MaxMsgs
       /\ \E topic \in Topics :
              MessageUnhandled(topic, <<104, 105>>,
                               [qos |-> 1, retain |-> FALSE, dup |-> FALSE])
    \/ /\ Len(received) < MaxMsgs
       /\ OnMessage("t/1", <<104, 105>>,
                    [qos |-> 1, retain |-> FALSE, dup |-> FALSE], FALSE)
    \/ \E i \in DOMAIN published, ok \in BOOLEAN : PublishSettled(i, ok)

SpecResume == InitForward /\ [][NextResume]_vars

\* C21: every message the source session delivers once its connection is
\* established has a destination publish call: no 'message' event is emitted
\* without the handler, and every handled message has its call.
C21_EveryDeliveryIsPublished ==
    /\ unhandled = <<>>
    /\ \A n \in DOMAIN received : \E i \in DOMAIN published : published[i].msg = n

====
